---------------------------- MODULE Spec2Model ----------------------------
(***************************************************************************)
(* tvconvert: batch conversion of movie containers.                        *)
(*                                                                         *)
(* The module models main() (src/src/tvconvert.ts), Config.parse           *)
(* (src/unnamed/part_002), the Movie class (src/src/movie.ts) and the      *)
(* ffprobe helpers (src/unnamed/part_001).                                 *)
(*                                                                         *)
(* Conventions.                                                            *)
(*  - A JavaScript string is a TLA+ string; a template literal is a \o     *)
(*    concatenation.  Strings the code inspects character by character     *)
(*    (a movie title under the file-name-safe regex, a prompt answer       *)
(*    under Number.parseInt) are sequences of one-character strings, and   *)
(*    Flat turns them into the string.                                     *)
(*  - A value that may be undefined / null is a sequence of length at most *)
(*    one: None is undefined (or null, or NaN), Some(v) is the value v.    *)
(*  - A path given to path.join is a sequence of segments.                 *)
(***************************************************************************)
EXTENDS Integers, Sequences, FiniteSets, TLC

VARIABLES
    fs,          \* the paths for which existsSync answers true
    configFile,  \* the JSON document in the configuration file
    media,       \* what ffprobe prints for each input file
    ffmpeg,      \* what the encoder may do: the blocks it may write to stdout,
                 \* the chunks it may write to stderr, its possible exit codes
    pc,          \* where main() stands
    movies,      \* the Movie objects, in configuration order
    collect,     \* per movie: the running collectConversionInfo() call
    encoder,     \* per movie: the ffmpeg child process and convert()'s closure
    console,     \* what main() has printed last (error message or report)
    exitStatus,  \* the exit code handed to process.exit
    lastCall     \* the outcome of the last call made on a Movie from outside main()

vars == <<fs, configFile, media, ffmpeg, pc, movies, collect, encoder, console,
          exitStatus, lastCall>>

---------------------------------------------------------------------------
(* Bounds of the model.                                                    *)

\* the longest list of movies in a configuration file
MaxMovies == 2
\* the most streams (after the video stream) ffprobe reports for a planned file
MaxStreams == 3
\* the most progress chunks an encoder writes to stdout
MaxChunks == 2
\* the most chunks an encoder writes to stderr
MaxStderrChunks == 2

---------------------------------------------------------------------------
(* Optional values and strings.                                            *)

None == <<>>
Some(v) == <<v>>
\* a ?? b
OrElse(opt, d) == IF opt = None THEN d ELSE opt[1]

RECURSIVE Flat(_)
\* the string spelled by a sequence of strings
Flat(s) == IF s = <<>> THEN "" ELSE Head(s) \o Flat(Tail(s))

RECURSIVE JoinWith(_, _)
\* Array.prototype.join(sep)
JoinWith(list, sep) ==
    IF list = <<>> THEN ""
    ELSE IF Len(list) = 1 THEN list[1]
    ELSE list[1] \o sep \o JoinWith(Tail(list), sep)

\* Array.prototype.flat() over a sequence of sequences
RECURSIVE FlatList(_)
FlatList(ss) == IF ss = <<>> THEN <<>> ELSE Head(ss) \o FlatList(Tail(ss))

Digits == <<"0", "1", "2", "3", "4", "5", "6", "7", "8", "9">>
LowerCase == {"a", "b", "c", "d", "e", "f", "g", "h", "i", "j", "k", "l", "m",
              "n", "o", "p", "q", "r", "s", "t", "u", "v", "w", "x", "y", "z"}
UpperCase == {"A", "B", "C", "D", "E", "F", "G", "H", "I", "J", "K", "L", "M",
              "N", "O", "P", "Q", "R", "S", "T", "U", "V", "W", "X", "Y", "Z"}
DigitChars == {Digits[i] : i \in 1..10}
\* the characters the regex /[^a-zA-Z0-9-_ ]/g keeps
FileNameSafeChars == LowerCase \cup UpperCase \cup DigitChars \cup {"-", "_", " "}

DigitValue(c) == (CHOOSE i \in 1..10 : Digits[i] = c) - 1

\* path.join of segments: empty and "." segments vanish, a leading empty
\* segment marks an absolute path (the model's paths hold no ".." segment)
PathJoin(segments) ==
    LET kept == SelectSeq(segments, LAMBDA s : s # "" /\ s # ".")
        absolute == segments # <<>> /\ segments[1] = ""
        body == JoinWith(kept, "/")
    IN  IF absolute THEN "/" \o body
        ELSE IF kept = <<>> THEN "."
        ELSE body

---------------------------------------------------------------------------
(* ffprobe.ts                                                              *)

\* a faulty variant that trusts the prober's "default" flag
DispositionListKeepingDefault(ffprobeDispositionMap) ==
    LET kept == SelectSeq(ffprobeDispositionMap, LAMBDA e : e[2] = 1)
    IN  [i \in 1..Len(kept) |-> kept[i][1]]

\* Object.keys(map).filter(k => k !== "default" && map[k] === 1); a
\* disposition map is the sequence of its <<key, value>> entries in key order
convertFfprobeDispositionMapToDispositionListWithoutDefault(ffprobeDispositionMap) ==
    LET kept == SelectSeq(ffprobeDispositionMap,
                          LAMBDA e : e[1] # "default" /\ e[2] = 1)
    IN  [i \in 1..Len(kept) |-> kept[i][1]]

\* s.tags?.[key]: tags is None or Some(sequence of <<key, value>> entries)
TagOf(tags, key) ==
    IF tags = None THEN None
    ELSE LET hits == SelectSeq(tags[1], LAMBDA e : e[1] = key)
         IN  IF hits = <<>> THEN None ELSE Some(hits[1][2])

---------------------------------------------------------------------------
(* Movie: names and validation.                                            *)

\* the year this run happens in (currentYear.ts)
currentYear == 2026

getFullyQualifiedName(movie, fileNameSafe) ==
    LET title == IF fileNameSafe
                 THEN SelectSeq(movie.title, LAMBDA c : c \in FileNameSafeChars)
                 ELSE movie.title
    IN  Flat(title) \o " (" \o ToString(movie.year) \o ")"

hasValidInputFilePath(movie) == movie.inputFilePath \in fs

hasValidTitle(movie) == Len(movie.title) > 0

hasValidYear(movie) == movie.year >= 1888 /\ movie.year <= currentYear

\* Movie.fromIMovie: a fresh Movie with neither plan nor outcome
fromIMovie(m) ==
    [title |-> m.title, year |-> m.year, inputFilePath |-> m.inputFilePath,
     conversionInfo |-> None, conversionResult |-> None]

---------------------------------------------------------------------------
(* Movie: the catalog.                                                     *)

\* JSON.parse(stdout) and the two filter/map passes; the result is
\* [threw |-> TRUE] or [threw |-> FALSE, value |-> ContainerInfo]
getInputFileMediaInfo(stdout) ==
    IF ~stdout.json THEN [threw |-> TRUE]
    ELSE
    LET raw == stdout.value
        audio == SelectSeq(raw.streams, LAMBDA s : s.codec_type = "audio")
        subs == SelectSeq(raw.streams, LAMBDA s : s.codec_type = "subtitle")
    IN  [threw |-> FALSE,
         value |->
           [containerDurationSeconds |-> raw.format.duration,
            audioStreams |->
               [i \in 1..Len(audio) |->
                  [index |-> audio[i].index,
                   codecName |-> audio[i].codec_name,
                   language |-> TagOf(audio[i].tags, "language"),
                   title |-> TagOf(audio[i].tags, "title"),
                   dispositionsWithoutDefault |->
                      convertFfprobeDispositionMapToDispositionListWithoutDefault(
                          audio[i].disposition),
                   channelLayout |-> audio[i].channel_layout]],
            subtitleStreams |->
               [i \in 1..Len(subs) |->
                  [index |-> subs[i].index,
                   codecName |-> subs[i].codec_name,
                   language |-> TagOf(subs[i].tags, "language"),
                   title |-> TagOf(subs[i].tags, "title"),
                   dispositionsWithoutDefault |->
                      convertFfprobeDispositionMapToDispositionListWithoutDefault(
                          subs[i].disposition)]]]]

---------------------------------------------------------------------------
(* Movie: the prompts.                                                     *)

IsSpace(c) == c \in {" ", "\t"}

RECURSIVE SkipSpaces(_)
SkipSpaces(cs) ==
    IF cs # <<>> /\ IsSpace(Head(cs)) THEN SkipSpaces(Tail(cs)) ELSE cs

RECURSIVE DigitPrefixValue(_, _)
\* the value of the longest prefix of digits of cs, continuing from acc
DigitPrefixValue(cs, acc) ==
    IF cs # <<>> /\ Head(cs) \in DigitChars
    THEN DigitPrefixValue(Tail(cs), 10 * acc + DigitValue(Head(cs)))
    ELSE acc

\* Number.parseInt(answer, 10): leading white space, an optional sign, the
\* longest run of digits; None is NaN
parseInt(answer) ==
    LET s == SkipSpaces(answer)
        signed == s # <<>> /\ Head(s) \in {"-", "+"}
        negative == s # <<>> /\ Head(s) = "-"
        digits == IF signed THEN Tail(s) ELSE s
    IN  IF digits = <<>> \/ Head(digits) \notin DigitChars THEN None
        ELSE LET n == DigitPrefixValue(digits, 0)
             IN  Some(IF negative THEN 0 - n ELSE n)

\* streams.find(s => s.index === candidate): None when nothing is found
FindByIndex(streams, candidate) ==
    LET hits == SelectSeq(streams, LAMBDA s : Some(s.index) = candidate)
    IN  IF hits = <<>> THEN None ELSE Some(hits[1])

\* one pass of selectAudioStream's loop: the stream the answer selects, or None
AudioAnswer(audioStreams, answer) == FindByIndex(audioStreams, parseInt(answer))

\* one pass of selectSubtitleStream's loop:
\* [done |-> FALSE] to ask again, [done |-> TRUE, selected |-> None or Some(s)]
SubtitleAnswer(subtitleStreams, answer) ==
    IF answer = <<>> THEN [done |-> TRUE, selected |-> None]
    ELSE LET found == FindByIndex(subtitleStreams, parseInt(answer))
         IN  IF found # None THEN [done |-> TRUE, selected |-> found]
             ELSE [done |-> FALSE, selected |-> None]

\* the rows console.table shows before the subtitle prompt
DisplayedSubtitleStreams(subtitleStreams) ==
    SelectSeq(subtitleStreams, LAMBDA s : s.codecName = "subrip")

---------------------------------------------------------------------------
(* Movie: the plan (the ffmpeg arguments).                                 *)

\* path.join(dir, name) for a normalized dir and a plain file name
PathJoinName(dir, name) == dir \o "/" \o name

\* a faulty variant that routes every output to "ready"
OutputSubfolderAlwaysReady(movie, outputFolderPath, selectedSubtitleStream) ==
    PathJoin(outputFolderPath \o <<"ready", getFullyQualifiedName(movie, TRUE)>>)

getOutputSubfolderPath(movie, outputFolderPath, selectedSubtitleStream) ==
    LET outputSubfolderName ==
            IF selectedSubtitleStream = None THEN "external_subtitle_needed"
            ELSE "ready"
    IN  PathJoin(outputFolderPath \o
                 <<outputSubfolderName, getFullyQualifiedName(movie, TRUE)>>)

getMkvOutputFilePath(movie, outputFolderPath, selectedSubtitleStream) ==
    PathJoinName(
        getOutputSubfolderPath(movie, outputFolderPath, selectedSubtitleStream),
        getFullyQualifiedName(movie, TRUE) \o ".mkv")

\* selectedSubtitleStream is Some(stream) here
getSrtOutputFilePath(movie, outputFolderPath, selectedSubtitleStream) ==
    PathJoinName(
        getOutputSubfolderPath(movie, outputFolderPath, selectedSubtitleStream),
        JoinWith(<<getFullyQualifiedName(movie, TRUE),
                   OrElse(selectedSubtitleStream[1].language, "???"),
                   "srt">>, "."))

getStreamTitle(language, codecName, originalTitle, channelLayout) ==
    LET lang == OrElse(language, "???")
        ret1 == lang \o " " \o codecName
        ret2 == IF channelLayout # None THEN ret1 \o " " \o channelLayout[1]
                ELSE ret1
    IN  IF originalTitle # None THEN ret2 \o " [" \o originalTitle[1] \o "]"
        ELSE ret2

getStreamMetadataArguments(streamSpecifier, language, codecName, originalTitle, channelLayout) ==
    <<"-metadata:s:" \o streamSpecifier,
      "title=" \o getStreamTitle(language, codecName, originalTitle,
                                 channelLayout)>>
    \o (IF language # None
        THEN <<"-metadata:s:" \o streamSpecifier, "language=" \o language[1]>>
        ELSE <<>>)

getDisposition(dispositionsWithoutDefault, isDefault) ==
    JoinWith((IF isDefault THEN <<"default">> ELSE <<>>)
             \o dispositionsWithoutDefault, "+")

getStreamDispositionArguments(streamSpecifier, dispositionsWithoutDefault, isDefault) ==
    LET disposition == getDisposition(dispositionsWithoutDefault, isDefault)
    IN  IF disposition = "" THEN <<>>
        ELSE <<"-disposition:" \o streamSpecifier, disposition>>

\* the -map arguments, in the order the code pushes them
MkvMapArguments(conversionInfo) ==
    <<"-map", "0:V",
      "-map", "0:" \o ToString(conversionInfo.selectedAudioStream.index)>>
    \o FlatList([i \in 1..Len(conversionInfo.audioStreams) |->
          <<"-map", "0:" \o ToString(conversionInfo.audioStreams[i].index)>>])
    \o FlatList([i \in 1..Len(conversionInfo.subtitleStreams) |->
          <<"-map", "0:" \o ToString(conversionInfo.subtitleStreams[i].index)>>])

\* a faulty variant that hands the selected stream's title to the first output
MkvFirstAudioArgumentsWithTitle(conversionInfo) ==
    <<"-codec:a:0", "aac", "-b:a:0", "128k", "-ac:a:0", "2">>
    \o getStreamMetadataArguments("a:0",
           conversionInfo.selectedAudioStream.language, "aac",
           conversionInfo.selectedAudioStream.title, Some("stereo"))
    \o getStreamDispositionArguments("a:0",
           conversionInfo.selectedAudioStream.dispositionsWithoutDefault, TRUE)

\* the arguments of the first audio output stream
MkvFirstAudioArguments(conversionInfo) ==
    <<"-codec:a:0", "aac", "-b:a:0", "128k", "-ac:a:0", "2">>
    \o getStreamMetadataArguments("a:0",
           conversionInfo.selectedAudioStream.language, "aac", None,
           Some("stereo"))
    \o getStreamDispositionArguments("a:0",
           conversionInfo.selectedAudioStream.dispositionsWithoutDefault, TRUE)

\* a faulty variant that numbers the copied audio outputs from a:0
MkvAudioArgumentsFromZero(audioStream, i) ==
    getStreamMetadataArguments("a:" \o ToString(i), audioStream.language,
        audioStream.codecName, audioStream.title,
        Some(audioStream.channelLayout))
    \o getStreamDispositionArguments("a:" \o ToString(i),
        audioStream.dispositionsWithoutDefault, FALSE)

\* the arguments of the other audio output streams; i counts from 0 as in forEach
MkvAudioArguments(audioStream, i) ==
    getStreamMetadataArguments("a:" \o ToString(i + 1), audioStream.language,
        audioStream.codecName, audioStream.title,
        Some(audioStream.channelLayout))
    \o getStreamDispositionArguments("a:" \o ToString(i + 1),
        audioStream.dispositionsWithoutDefault, FALSE)

\* the arguments of the subtitle output streams; i counts from 0 as in forEach
MkvSubtitleArguments(subtitleStream, i) ==
    getStreamMetadataArguments("s:" \o ToString(i), subtitleStream.language,
        subtitleStream.codecName, subtitleStream.title, None)
    \o getStreamDispositionArguments("s:" \o ToString(i),
        subtitleStream.dispositionsWithoutDefault, FALSE)

getMkvOutputArguments(movie, outputFolderPath, conversionInfo) ==
    <<"-codec", "copy", "-map_metadata", "-1", "-map_chapters", "-1">>
    \o MkvMapArguments(conversionInfo)
    \o MkvFirstAudioArguments(conversionInfo)
    \o FlatList([i \in 1..Len(conversionInfo.audioStreams) |->
          MkvAudioArguments(conversionInfo.audioStreams[i], i - 1)])
    \o FlatList([i \in 1..Len(conversionInfo.subtitleStreams) |->
          MkvSubtitleArguments(conversionInfo.subtitleStreams[i], i - 1)])
    \o <<getMkvOutputFilePath(movie, outputFolderPath,
                              conversionInfo.selectedSubtitleStream)>>

getSrtOutputArguments(movie, outputFolderPath, conversionInfo) ==
    IF conversionInfo.selectedSubtitleStream = None THEN <<>>
    ELSE <<"-map",
           "0:" \o ToString(conversionInfo.selectedSubtitleStream[1].index),
           getSrtOutputFilePath(movie, outputFolderPath,
                                conversionInfo.selectedSubtitleStream)>>

globalArguments ==
    <<"-hide_banner", "-loglevel", "warning", "-nostats", "-progress",
      "pipe:1", "-y">>

\* convert(): the argument list handed to spawn
ffmpegArguments(movie, outputFolderPath, conversionInfo) ==
    globalArguments
    \o <<"-i", movie.inputFilePath>>
    \o FlatList(<<getMkvOutputArguments(movie, outputFolderPath, conversionInfo),
                  getSrtOutputArguments(movie, outputFolderPath, conversionInfo)>>)

---------------------------------------------------------------------------
(* Movie: progress.                                                        *)

\* x rounded to the nearest integer, ties away from zero, for x = num / den
\* with num >= 0 and den > 0
RoundDiv(num, den) == (2 * num + den) \div (2 * den)

TwoDigits(n) == IF n < 10 THEN "0" \o ToString(n) ELSE ToString(n)

\* Number.prototype.toFixed(2) of the number hundredths / 100, given its sign
\* and the magnitude already rounded to hundredths: a negative number keeps
\* its sign even when it rounds to zero ("-0.00")
toFixed2(negative, hundredths) ==
    (IF negative THEN "-" ELSE "")
    \o ToString(hundredths \div 100) \o "." \o TwoDigits(hundredths % 100)

\* JSON values of ffprobe's format.duration: a number, a string (its
\* characters), or no such key
JsNumber(n) == [type |-> "number", number |-> n, text |-> <<>>]
JsText(chars) == [type |-> "string", number |-> 0, text |-> chars]
JsUndefined == [type |-> "undefined", number |-> 0, text |-> <<>>]

\* the number a value is coerced to as the divisor of "/": None is NaN; a
\* string of digits is its value, and undefined and other text are NaN
ToNumber(v) ==
    IF v.type = "number" THEN Some(v.number)
    ELSE IF /\ v.type = "string"
            /\ v.text # <<>>
            /\ \A k \in 1..Len(v.text) : v.text[k] \in DigitChars
    THEN Some(DigitPrefixValue(v.text, 0))
    ELSE None

\* getRoundedProgressPercentage(0), the closure's initial value
InitialRoundedProgressPercentage == toFixed2(FALSE, 0)

\* getRoundedProgressPercentage(outTimeMicroseconds / 1e6 / containerDurationSeconds):
\* (progress * 100).toFixed(2); in hundredths of a percent the progress is
\* outTimeMicroseconds * 10^4 / (10^6 * duration) = outTimeMicroseconds / (100 * duration)
\* with a duration that is not a number the progress is NaN and toFixed gives "NaN"
getRoundedProgressPercentage(outTimeMicroseconds, containerDurationSeconds) ==
    LET magnitude == IF outTimeMicroseconds < 0 THEN 0 - outTimeMicroseconds
                     ELSE outTimeMicroseconds
        duration == ToNumber(containerDurationSeconds)
    IN  IF duration = None THEN "NaN"
        ELSE toFixed2(outTimeMicroseconds < 0,
                      RoundDiv(magnitude, 100 * duration[1]))

\* the line logProgress prints
ProgressLine(movie, currentFileIndex, allFilesCount, percentage, speed) ==
    "[" \o ToString(currentFileIndex) \o " / " \o ToString(allFilesCount)
    \o "] " \o getFullyQualifiedName(movie, FALSE)
    \o " [" \o percentage \o "% at " \o speed \o "]"

---------------------------------------------------------------------------
(* Config.parse                                                            *)

\* the lines of an Error message: the header and one line per listed movie
ErrorLines(header, listed) == <<header>> \o listed

\* a faulty variant that reports the first movie with a missing input file only
FirstMovieWithInvalidInputFilePath(ms) ==
    LET bad == SelectSeq(ms, LAMBDA m : ~hasValidInputFilePath(m))
    IN  IF bad = <<>> THEN <<>> ELSE <<bad[1]>>

\* movies.filter(movie => !movie.hasValidInputFilePath())
moviesWithInvalidInputFilePaths(ms) ==
    SelectSeq(ms, LAMBDA m : ~hasValidInputFilePath(m))

\* movies.filter(movie => !movie.hasValidTitle())
moviesWithInvalidTitles(ms) == SelectSeq(ms, LAMBDA m : ~hasValidTitle(m))

\* movies.filter(movie => !movie.hasValidYear())
moviesWithInvalidYears(ms) == SelectSeq(ms, LAMBDA m : ~hasValidYear(m))

\* Config.parseFromFile: [threw |-> TRUE, message |-> lines] or
\* [threw |-> FALSE, config |-> the parsed document]
ConfigParse(file) ==
    IF ~file.json
    THEN [threw |-> TRUE, message |-> <<"SyntaxError">>]
    ELSE
    LET config == file.value
        ms == [i \in 1..Len(config.movies) |-> fromIMovie(config.movies[i])]
        badPaths == moviesWithInvalidInputFilePaths(ms)
        badTitles == moviesWithInvalidTitles(ms)
        badYears == moviesWithInvalidYears(ms)
    IN  IF config.ffmpegBinaryPath \notin fs
        THEN [threw |-> TRUE,
              message |-> <<"config.ffmpegBinaryPath does not exist">>]
        ELSE IF config.ffprobeBinaryPath \notin fs
        THEN [threw |-> TRUE,
              message |-> <<"config.ffprobeBinaryPath does not exist">>]
        ELSE IF PathJoin(config.outputFolderPath) \notin fs
        THEN [threw |-> TRUE,
              message |-> <<"config.outputFolderPath does not exist">>]
        ELSE IF Len(badPaths) > 0
        THEN [threw |-> TRUE,
              message |-> ErrorLines("The following input files do not exist:",
                  [i \in 1..Len(badPaths) |-> badPaths[i].inputFilePath])]
        ELSE IF Len(badTitles) > 0
        THEN [threw |-> TRUE,
              message |-> ErrorLines("The following movie titles are invalid:",
                  [i \in 1..Len(badTitles) |-> Flat(badTitles[i].title)])]
        ELSE IF Len(badYears) > 0
        THEN [threw |-> TRUE,
              message |-> ErrorLines("The following movies' years are invalid:",
                  [i \in 1..Len(badYears) |-> Flat(badYears[i].title)])]
        ELSE [threw |-> FALSE, config |-> config]

---------------------------------------------------------------------------
(* Movie: the operations, as actions on one Movie (index i of movies).     *)

movieVars == <<movies, collect, encoder, fs>>

\* what ffprobe printed for movie i, parsed
ProbeOf(i) == getInputFileMediaInfo(media[movies[i].inputFilePath])

\* no encoder process yet
EncoderIdle ==
    [state |-> "none", args |-> <<>>, currentFileIndex |-> 0,
     allFilesCount |-> 0, containerDurationSeconds |-> JsUndefined,
     roundedProgressPercentage |-> "", stderr |-> "", exitCode |-> None,
     stdoutChunks |-> 0, stderrChunks |-> 0, logged |-> 0, lastLine |-> ""]

\* collectConversionInfo() up to its first await: the probe succeeded, the
\* audio table is shown and the audio question is asked
collectConversionInfo(i) ==
    /\ collect[i] = None
    /\ ~ProbeOf(i).threw
    /\ collect' = [collect EXCEPT ![i] =
          Some([stage |-> "audio", info |-> ProbeOf(i).value,
                selectedAudioStream |-> None])]
    /\ UNCHANGED <<movies, encoder, fs>>

\* selectAudioStream(): the operator answers the audio question; an answer that
\* selects nothing asks again, one that selects a stream moves on to the
\* subtitle table and question
selectAudioStream(i, answer) ==
    /\ collect[i] # None
    /\ collect[i][1].stage = "audio"
    /\ LET selected == AudioAnswer(collect[i][1].info.audioStreams, answer)
       IN  collect' = IF selected = None THEN collect
                      ELSE [collect EXCEPT ![i] =
                              Some([collect[i][1] EXCEPT
                                      !.stage = "subtitle",
                                      !.selectedAudioStream = selected])]
    /\ UNCHANGED <<movies, encoder, fs>>

\* selectSubtitleStream(): the operator answers the subtitle question; when the
\* loop ends collectConversionInfo() stores the plan and returns
selectSubtitleStream(i, answer) ==
    /\ collect[i] # None
    /\ collect[i][1].stage = "subtitle"
    /\ LET c == collect[i][1]
           r == SubtitleAnswer(c.info.subtitleStreams, answer)
       IN  IF ~r.done THEN UNCHANGED <<movies, collect>>
           ELSE /\ movies' = [movies EXCEPT ![i].conversionInfo =
                     Some([containerDurationSeconds |->
                              c.info.containerDurationSeconds,
                           audioStreams |-> c.info.audioStreams,
                           selectedAudioStream |-> c.selectedAudioStream[1],
                           subtitleStreams |-> c.info.subtitleStreams,
                           selectedSubtitleStream |-> r.selected])]
                /\ collect' = [collect EXCEPT ![i] = None]
    /\ UNCHANGED <<encoder, fs>>

\* convert() with a plan stored: the output subfolder is made, ffmpeg is spawned
\* with the planned arguments and the handlers' closure is set up
convert(i, outputFolderPath, currentFileIndex, allFilesCount) ==
    /\ movies[i].conversionInfo # None
    /\ LET info == movies[i].conversionInfo[1]
       IN  /\ fs' = fs \cup {getOutputSubfolderPath(movies[i], outputFolderPath,
                                                    info.selectedSubtitleStream)}
           /\ encoder' = [encoder EXCEPT ![i] =
                 [state |-> "running",
                  args |-> ffmpegArguments(movies[i], outputFolderPath, info),
                  currentFileIndex |-> currentFileIndex,
                  allFilesCount |-> allFilesCount,
                  containerDurationSeconds |-> info.containerDurationSeconds,
                  roundedProgressPercentage |-> InitialRoundedProgressPercentage,
                  stderr |-> "", exitCode |-> None,
                  stdoutChunks |-> 0, stderrChunks |-> 0,
                  logged |-> 0, lastLine |-> ""]]
    /\ UNCHANGED <<movies, collect>>

\* a faulty variant that logs every chunk with a numeric out_time_us
LogsEveryChunk(old, new) == TRUE

\* newRoundedProgressPercentage !== roundedProgressPercentage
ProgressChanged(old, new) == new # old

\* ffmpeg.stdout.on("data"): data is one progress block, with its out_time_us
\* (None is "N/A") and its speed
OnStdoutData(i, data) ==
    /\ encoder[i].state = "running"
    /\ encoder[i].stdoutChunks < MaxChunks
    /\ LET e == encoder[i]
           seen == [e EXCEPT !.stdoutChunks = e.stdoutChunks + 1]
           new == getRoundedProgressPercentage(data.out_time_us[1],
                                               e.containerDurationSeconds)
       IN  encoder' = [encoder EXCEPT ![i] =
              IF data.out_time_us = None \/ data.speed = "N/A" THEN seen
              ELSE IF ProgressChanged(e.roundedProgressPercentage, new)
              THEN [seen EXCEPT
                      !.roundedProgressPercentage = new,
                      !.logged = e.logged + 1,
                      !.lastLine = ProgressLine(movies[i], e.currentFileIndex,
                                       e.allFilesCount, new, data.speed)]
              ELSE seen]
    /\ UNCHANGED <<movies, collect, fs>>

\* ffmpeg.stderr.on("data")
OnStderrData(i, data) ==
    /\ encoder[i].state = "running"
    /\ encoder[i].stderrChunks < MaxStderrChunks
    /\ encoder' = [encoder EXCEPT ![i].stderr = @ \o data,
                                  ![i].stderrChunks = @ + 1]
    /\ UNCHANGED <<movies, collect, fs>>

\* a faulty variant that reports every conversion as successful
AlwaysSuccessful(exitCode) == TRUE

\* exitCode === 0; the exit code is None when a signal ended the process
IsSuccessfulExit(exitCode) == exitCode = Some(0)

\* ffmpeg.on("close"): the outcome is stored and convert()'s promise resolves;
\* the closure (progress, stderr buffer) is no longer reachable
OnClose(i, exitCode) ==
    /\ encoder[i].state = "running"
    /\ movies' = [movies EXCEPT ![i].conversionResult =
          Some([successful |-> IsSuccessfulExit(exitCode),
                stderr |-> encoder[i].stderr])]
    /\ encoder' = [encoder EXCEPT ![i] =
          [EncoderIdle EXCEPT !.state = "closed", !.args = encoder[i].args,
                              !.exitCode = exitCode]]
    /\ UNCHANGED <<collect, fs>>

\* a faulty variant without the assertion: it returns whatever is stored
ConversionResultUnchecked(movie) ==
    [threw |-> FALSE, value |-> movie.conversionResult]

\* getConversionResult(): [threw |-> TRUE] or [threw |-> FALSE, value |-> result]
getConversionResult(movie) ==
    IF movie.conversionResult = None
    THEN [threw |-> TRUE, value |-> None]
    ELSE [threw |-> FALSE, value |-> movie.conversionResult]

---------------------------------------------------------------------------
(* The inputs the model draws from.                                        *)

\* titles, as the characters the file-name-safe regex looks at
TitleUp == <<"U", "p">>
TitleAB == <<"A", ":", "B", "?">>
TitleLost == <<"L", "o", "s", "t">>
TitleOld == <<"O", "l", "d">>

\* the movie entries a configuration file may list
MovieUp == [title |-> TitleUp, year |-> 1999, inputFilePath |-> "/in/up.mkv"]
MovieAB == [title |-> TitleAB, year |-> currentYear, inputFilePath |-> "/in/ab.mkv"]
MovieNoFile == [title |-> TitleLost, year |-> 2001, inputFilePath |-> "/in/lost.mkv"]
MovieNoTitle == [title |-> <<>>, year |-> 2000, inputFilePath |-> "/in/up.mkv"]
MovieTooOld == [title |-> TitleOld, year |-> 1887, inputFilePath |-> "/in/ab.mkv"]
MovieTooNew == [title |-> TitleUp, year |-> currentYear + 1, inputFilePath |-> "/in/up.mkv"]
ValidMoviePool == {MovieUp, MovieAB}
MoviePool == ValidMoviePool \cup {MovieNoFile, MovieNoTitle, MovieTooOld, MovieTooNew}

SeqsUpTo(S, n) == UNION {[1..k -> S] : k \in 0..n}

ConfigOf(ms, out) ==
    [json |-> TRUE,
     value |-> [ffmpegBinaryPath |-> "/bin/ffmpeg",
                ffprobeBinaryPath |-> "/bin/ffprobe",
                outputFolderPath |-> out,
                movies |-> ms]]

\* "./converted" and "/out", as path segments
OutConverted == <<".", "converted">>
OutAbsolute == <<"", "out">>

MalformedConfig == [json |-> FALSE, value |-> None]

\* the files that exist when every path of the configuration is good
FullFs == {"/bin/ffmpeg", "/bin/ffprobe", "converted", "/out", "/in/up.mkv", "/in/ab.mkv"}
FsPool == {FullFs, FullFs \ {"/bin/ffmpeg"}, FullFs \ {"/bin/ffprobe"}, FullFs \ {"converted"}}

Disposition(default, forced) == << <<"default", default>>, <<"forced", forced>> >>

Tags(language, title) ==
    Some((IF language = None THEN <<>> ELSE << <<"language", language[1]>> >>)
         \o (IF title = None THEN <<>> ELSE << <<"title", title[1]>> >>))

VideoStream ==
    [codec_type |-> "video", index |-> 0, codec_name |-> "h264",
     disposition |-> Disposition(1, 0), tags |-> None]

\* audio streams as ffprobe reports them (index filled in by position)
AudioEng ==
    [codec_type |-> "audio", index |-> 0, codec_name |-> "dts",
     disposition |-> Disposition(1, 0), tags |-> Tags(Some("eng"), None),
     channel_layout |-> "5.1"]
AudioCommentary ==
    [codec_type |-> "audio", index |-> 0, codec_name |-> "ac3",
     disposition |-> << <<"comment", 1>>, <<"default", 1>>, <<"forced", 0>> >>,
     tags |-> Tags(Some("hun"), Some("Commentary")),
     channel_layout |-> "stereo"]
AudioBare ==
    [codec_type |-> "audio", index |-> 0, codec_name |-> "aac",
     disposition |-> Disposition(0, 0), tags |-> None,
     channel_layout |-> "mono"]
AudioPool == {AudioEng, AudioCommentary, AudioBare}

\* subtitle streams as ffprobe reports them
SubtitleSrt ==
    [codec_type |-> "subtitle", index |-> 0, codec_name |-> "subrip",
     disposition |-> Disposition(1, 1), tags |-> Tags(Some("eng"), None)]
SubtitlePgs ==
    [codec_type |-> "subtitle", index |-> 0, codec_name |-> "hdmv_pgs_subtitle",
     disposition |-> Disposition(0, 0), tags |-> Tags(None, Some("Signs"))]
SubtitlePool == {SubtitleSrt, SubtitlePgs}

\* ffprobe's JSON for a file whose streams, after the video stream, are ss
FfprobeStdout(ss, duration) ==
    [json |-> TRUE,
     value |-> [format |-> [duration |-> JsNumber(duration)],
                streams |-> <<VideoStream>> \o
                    [k \in 1..Len(ss) |-> [ss[k] EXCEPT !.index = k]]]]

\* the container duration of the model's files, in seconds
DurationSeconds == 10

\* the files of the batch runs: the example of the specification (one audio
\* stream, one text subtitle) and a file with two audio streams and an image
\* subtitle
MediaUp == FfprobeStdout(<<AudioEng, SubtitleSrt>>, DurationSeconds)
MediaAB == FfprobeStdout(<<AudioCommentary, SubtitlePgs, AudioBare>>, DurationSeconds)
MediaAudioOnly == FfprobeStdout(<<AudioBare>>, DurationSeconds)
MainMedia == [f \in {"/in/up.mkv", "/in/ab.mkv"} |->
                 IF f = "/in/up.mkv" THEN MediaUp ELSE MediaAudioOnly]

\* what ffprobe prints when it cannot read the file: nothing JSON.parse accepts
MediaNotJson == [json |-> FALSE, value |-> None]
\* ffprobe output whose format object has no duration key
MediaNoDuration == [MediaUp EXCEPT !.value.format.duration = JsUndefined]
\* ffprobe output whose format.duration is the string "N/A"
MediaTextDuration ==
    [MediaAudioOnly EXCEPT !.value.format.duration = JsText(<<"N", "/", "A">>)]

\* the probe outputs of the runs over files that ffprobe may not describe
ProbeMedia ==
    {[f \in {"/in/up.mkv", "/in/ab.mkv"} |->
         IF f = "/in/up.mkv" THEN up ELSE ab] :
        up \in {MediaUp, MediaNotJson, MediaNoDuration, MediaTextDuration},
        ab \in {MediaAudioOnly, MediaNotJson, MediaNoDuration}}

\* every file of at most MaxStreams audio and subtitle streams, at least one audio
PlanMediaPool ==
    {FfprobeStdout(ss, DurationSeconds) :
        ss \in {t \in SeqsUpTo(AudioPool \cup SubtitlePool, MaxStreams) :
                   \E k \in 1..Len(t) : t[k] \in AudioPool}}

\* what the operator may type at a prompt
AnswerPool ==
    {<<>>, <<"1">>, <<"2">>, <<"3">>, <<"x">>, <<"2", "a">>, <<" ", "1">>,
     <<"-", "1">>}

\* a progress block of ffmpeg -progress: out_time_us (None is "N/A") and speed
Block(outTimeMicroseconds, speed) ==
    [out_time_us |-> outTimeMicroseconds, speed |-> speed]

\* exit codes: success, failure, and null (ended by a signal)
ExitCodePool == {Some(0), Some(1), None}

\* the encoder of the batch runs
MainFfmpeg ==
    [stdout |-> {Block(None, "1.5x"), Block(Some(5000000), "1.5x")},
     stderr |-> {"boom\n"},
     exitCodes |-> ExitCodePool]

\* the encoder of the runs that look at progress and diagnostics; with
\* DurationSeconds = 10 a block at 5000400 us is at 50.004 % and one at
\* 5000600 us at 50.006 %
FullFfmpeg ==
    [stdout |-> {Block(None, "N/A"), Block(None, "1.5x"), Block(Some(0), "N/A"),
                 Block(Some(0), "1.5x"), Block(Some(0 - 20), "1.5x"),
                 Block(Some(5000000), "1.5x"), Block(Some(5000400), "2x"),
                 Block(Some(5000600), "2x")},
     stderr |-> {"warn\n", "boom\n"},
     exitCodes |-> ExitCodePool]

---------------------------------------------------------------------------
(* main()                                                                  *)

At(at, i, currentFileIndex) ==
    [at |-> at, i |-> i, currentFileIndex |-> currentFileIndex]

N == Len(movies)

\* after the conversion of movie i: the next movie, or the report
AfterConvert(i, n, currentFileIndex) ==
    IF i < n THEN At("convert", i + 1, currentFileIndex)
    ELSE At("report", 0, currentFileIndex)

\* a faulty variant with one loop: each movie is converted right after its prompts
ConvertRightAfterCollect(i, n) ==
    IF i = 0 THEN (IF n > 0 THEN At("collect", 1, 0) ELSE At("report", 0, 0))
    ELSE At("convert", i, 0)

\* after the planning of movie i (0: before the first): the next movie's
\* planning, or the second loop with currentFileIndex = 0
AfterCollect(i, n) ==
    IF i < n THEN At("collect", i + 1, 0) ELSE AfterConvert(0, n, 0)

\* Config.parseFromFile, the catch, and movies = config.movies.map(fromIMovie)
MainStart ==
    /\ pc.at = "start"
    /\ LET r == ConfigParse(configFile)
       IN  IF r.threw
           THEN /\ console' = r.message
                /\ exitStatus' = Some(1)
                /\ pc' = At("exited", 0, 0)
                /\ UNCHANGED <<movies, collect, encoder>>
           ELSE /\ movies' = [i \in 1..Len(r.config.movies) |->
                                 fromIMovie(r.config.movies[i])]
                /\ collect' = [i \in 1..Len(r.config.movies) |-> None]
                /\ encoder' = [i \in 1..Len(r.config.movies) |-> EncoderIdle]
                /\ pc' = AfterCollect(0, Len(r.config.movies))
                /\ UNCHANGED <<console, exitStatus>>
    /\ UNCHANGED <<fs, configFile, media, ffmpeg, lastCall>>

\* await movie.collectConversionInfo(...): the call; an error of the probe
\* rejects main()'s promise, which nothing handles
MainCallCollect ==
    /\ pc.at = "collect"
    /\ IF ProbeOf(pc.i).threw
       THEN pc' = At("crashed", pc.i, 0) /\ UNCHANGED movieVars
       ELSE collectConversionInfo(pc.i) /\ pc' = At("awaitCollect", pc.i, 0)
    /\ UNCHANGED <<configFile, media, ffmpeg, console, exitStatus, lastCall>>

MainAnswerAudio ==
    /\ pc.at = "awaitCollect"
    /\ \E answer \in AnswerPool : selectAudioStream(pc.i, answer)
    /\ UNCHANGED <<configFile, media, ffmpeg, pc, console, exitStatus, lastCall>>

MainAnswerSubtitle ==
    /\ pc.at = "awaitCollect"
    /\ \E answer \in AnswerPool : selectSubtitleStream(pc.i, answer)
    /\ UNCHANGED <<configFile, media, ffmpeg, pc, console, exitStatus, lastCall>>

\* collectConversionInfo()'s promise is resolved once the plan is stored
CollectResolved(i) == collect[i] = None /\ movies[i].conversionInfo # None

\* main() resumes after await movie.collectConversionInfo(...)
MainResumeCollect ==
    /\ pc.at = "awaitCollect"
    /\ CollectResolved(pc.i)
    /\ pc' = AfterCollect(pc.i, N)
    /\ UNCHANGED <<fs, configFile, media, ffmpeg, movies, collect, encoder, console,
                   exitStatus, lastCall>>

\* await movie.convert(outputFolderPath, ffmpegBinaryPath, ++currentFileIndex,
\* movies.length): the call; without a plan convert() throws, which rejects
\* main()'s promise
MainCallConvert ==
    /\ pc.at = "convert"
    /\ IF movies[pc.i].conversionInfo = None
       THEN pc' = At("crashed", pc.i, pc.currentFileIndex + 1)
            /\ UNCHANGED movieVars
       ELSE /\ convert(pc.i, configFile.value.outputFolderPath,
                       pc.currentFileIndex + 1, N)
            /\ pc' = At("awaitConvert", pc.i, pc.currentFileIndex + 1)
    /\ UNCHANGED <<configFile, media, ffmpeg, console, exitStatus, lastCall>>

\* the running encoder writes a progress block
EncoderStdout ==
    /\ \E i \in 1..N : \E data \in ffmpeg.stdout : OnStdoutData(i, data)
    /\ UNCHANGED <<configFile, media, ffmpeg, pc, console, exitStatus, lastCall>>

\* the running encoder writes diagnostics
EncoderStderr ==
    /\ \E i \in 1..N : \E data \in ffmpeg.stderr : OnStderrData(i, data)
    /\ UNCHANGED <<configFile, media, ffmpeg, pc, console, exitStatus, lastCall>>

\* the running encoder terminates
EncoderClose ==
    /\ \E i \in 1..N : \E exitCode \in ffmpeg.exitCodes : OnClose(i, exitCode)
    /\ UNCHANGED <<configFile, media, ffmpeg, pc, console, exitStatus, lastCall>>

\* a faulty variant: convert() resolves as soon as the encoder is spawned
ResolvedAtSpawn(i) == encoder[i].state # "none"

\* convert()'s promise is resolved by the close handler
ConvertResolved(i) == encoder[i].state = "closed"

\* main() resumes after await movie.convert(...)
MainResumeConvert ==
    /\ pc.at = "awaitConvert"
    /\ ConvertResolved(pc.i)
    /\ pc' = AfterConvert(pc.i, N, pc.currentFileIndex)
    /\ UNCHANGED <<fs, configFile, media, ffmpeg, movies, collect, encoder, console,
                   exitStatus, lastCall>>

\* the movies main() reports as failed
moviesWithConversionError ==
    SelectSeq(movies, LAMBDA m : ~getConversionResult(m).value[1].successful)

\* main()'s return value after the second loop
MainExitCode(failedCount) == IF failedCount > 0 THEN 1 ELSE 0

\* the partition by outcome, the report and the exit code
MainReport ==
    /\ pc.at = "report"
    /\ IF \E i \in 1..N : getConversionResult(movies[i]).threw
       THEN pc' = At("crashed", 0, pc.currentFileIndex)
            /\ UNCHANGED <<console, exitStatus>>
       ELSE LET failed == moviesWithConversionError
            IN  /\ console' =
                     IF Len(failed) > 0
                     THEN [k \in 1..Len(failed) |->
                             "\n" \o getFullyQualifiedName(failed[k], FALSE)
                             \o "\n"
                             \o getConversionResult(failed[k]).value[1].stderr]
                          \o <<"\nFINISHED WITH " \o ToString(Len(failed))
                               \o " ERRORS">>
                     ELSE <<"\nSUCCESS">>
                /\ exitStatus' = Some(MainExitCode(Len(failed)))
                /\ pc' = At("exited", 0, pc.currentFileIndex)
    /\ UNCHANGED <<fs, configFile, media, ffmpeg, movies, collect, encoder, lastCall>>

NoCall == [op |-> "none", movie |-> 0, threw |-> FALSE, value |-> None]

\* a run of tvconvert -c <configfile>
Init ==
    /\ fs \in FsPool
    /\ configFile \in {MalformedConfig}
          \cup {ConfigOf(ms, OutConverted) : ms \in SeqsUpTo(MoviePool, MaxMovies)}
    /\ media = MainMedia
    /\ ffmpeg = MainFfmpeg
    /\ pc = At("start", 0, 0)
    /\ movies = <<>>
    /\ collect = <<>>
    /\ encoder = <<>>
    /\ console = <<>>
    /\ exitStatus = None
    /\ lastCall = NoCall

Next ==
    \/ MainStart
    \/ MainCallCollect
    \/ MainAnswerAudio
    \/ MainAnswerSubtitle
    \/ MainResumeCollect
    \/ MainCallConvert
    \/ EncoderStdout
    \/ EncoderStderr
    \/ EncoderClose
    \/ MainResumeConvert
    \/ MainReport

Spec == Init /\ [][Next]_vars

---------------------------------------------------------------------------
(* Planning runs: the batch run of one movie up to the spawn of its        *)
(* encoder, over every file of PlanMediaPool.                              *)

InitPlan ==
    /\ fs = FullFs
    /\ configFile \in {ConfigOf(<<MovieUp>>, OutConverted),
                       ConfigOf(<<MovieAB>>, OutAbsolute)}
    /\ media \in {[f \in {"/in/up.mkv", "/in/ab.mkv"} |-> m] : m \in PlanMediaPool}
    /\ ffmpeg = MainFfmpeg
    /\ pc = At("start", 0, 0)
    /\ movies = <<>>
    /\ collect = <<>>
    /\ encoder = <<>>
    /\ console = <<>>
    /\ exitStatus = None
    /\ lastCall = NoCall

NextPlan ==
    \/ MainStart
    \/ MainCallCollect
    \/ MainAnswerAudio
    \/ MainAnswerSubtitle
    \/ MainResumeCollect
    \/ MainCallConvert

SpecPlan == InitPlan /\ [][NextPlan]_vars

---------------------------------------------------------------------------
(* A caller other than main(): it holds one Movie and calls its methods in *)
(* any order, also before the call they depend on has completed.  Each     *)
(* method is called for at most one run of the lifecycle: collect while no *)
(* plan is stored, convert while no encoder was spawned.                   *)

Outcome(op, i, threw, value) ==
    [op |-> op, movie |-> i, threw |-> threw, value |-> value]

ApiCollect ==
    /\ \E i \in 1..N :
          /\ movies[i].conversionInfo = None
          /\ collect[i] = None
          /\ IF ProbeOf(i).threw
             THEN /\ lastCall' = Outcome("collectConversionInfo", i, TRUE, None)
                  /\ UNCHANGED movieVars
             ELSE /\ collectConversionInfo(i)
                  /\ lastCall' = Outcome("collectConversionInfo", i, FALSE, None)
    /\ UNCHANGED <<configFile, media, ffmpeg, pc, console, exitStatus>>

ApiAnswerAudio ==
    /\ \E i \in 1..N : \E answer \in AnswerPool : selectAudioStream(i, answer)
    /\ UNCHANGED <<configFile, media, ffmpeg, pc, console, exitStatus, lastCall>>

ApiAnswerSubtitle ==
    /\ \E i \in 1..N : \E answer \in AnswerPool : selectSubtitleStream(i, answer)
    /\ UNCHANGED <<configFile, media, ffmpeg, pc, console, exitStatus, lastCall>>

\* convert() throws when no plan is stored
ApiConvert ==
    /\ \E i \in 1..N :
          /\ encoder[i].state = "none"
          /\ IF movies[i].conversionInfo = None
             THEN /\ lastCall' = Outcome("convert", i, TRUE, None)
                  /\ UNCHANGED movieVars
             ELSE /\ convert(i, configFile.value.outputFolderPath, i, N)
                  /\ lastCall' = Outcome("convert", i, FALSE, None)
    /\ UNCHANGED <<configFile, media, ffmpeg, pc, console, exitStatus>>

\* the block handed to the stdout handler is remembered
ApiStdout ==
    /\ \E i \in 1..N : \E data \in ffmpeg.stdout :
          /\ OnStdoutData(i, data)
          /\ lastCall' = Outcome("data", i, FALSE, Some(data))
    /\ UNCHANGED <<configFile, media, ffmpeg, pc, console, exitStatus>>

ApiStderr ==
    /\ \E i \in 1..N : \E data \in ffmpeg.stderr : OnStderrData(i, data)
    /\ UNCHANGED <<configFile, media, ffmpeg, pc, console, exitStatus, lastCall>>

ApiClose ==
    /\ \E i \in 1..N : \E exitCode \in ffmpeg.exitCodes : OnClose(i, exitCode)
    /\ UNCHANGED <<configFile, media, ffmpeg, pc, console, exitStatus, lastCall>>

ApiGetConversionResult ==
    /\ \E i \in 1..N :
          LET r == getConversionResult(movies[i])
          IN  lastCall' = Outcome("getConversionResult", i, r.threw, r.value)
    /\ UNCHANGED <<fs, configFile, media, ffmpeg, pc, movies, collect, encoder,
                   console, exitStatus>>

InitMovie ==
    /\ fs = FullFs
    /\ configFile = ConfigOf(<<MovieUp>>, OutConverted)
    /\ media = MainMedia
    /\ ffmpeg = FullFfmpeg
    /\ pc = At("caller", 0, 0)
    /\ movies = <<fromIMovie(MovieUp)>>
    /\ collect = <<None>>
    /\ encoder = <<EncoderIdle>>
    /\ console = <<>>
    /\ exitStatus = None
    /\ lastCall = NoCall

NextMovie ==
    \/ ApiCollect
    \/ ApiAnswerAudio
    \/ ApiAnswerSubtitle
    \/ ApiConvert
    \/ ApiStdout
    \/ ApiStderr
    \/ ApiClose
    \/ ApiGetConversionResult

SpecMovie == InitMovie /\ [][NextMovie]_vars

---------------------------------------------------------------------------
(* Properties of the batch run (Spec).                                     *)

Spawned(i) == encoder[i].state # "none"
Running(i) == encoder[i].state = "running"
Closed(i) == encoder[i].state = "closed"

\* C1: the batch run is two-phase: whenever the encoder of any item has been
\* spawned, every item of the list has its plan stored and no prompt of any
\* item is pending, so no prompt is issued once the first encoder has started.
C1_TwoPhase ==
    (\E i \in 1..N : Spawned(i)) =>
        /\ \A j \in 1..N : movies[j].conversionInfo # None /\ collect[j] = None
        /\ pc.at \notin {"start", "collect", "awaitCollect"}

\* the first encoder of a two-item batch runs, the second item already planned
C1_Witness ==
    /\ N = 2
    /\ Running(1)
    /\ ~Spawned(2)
    /\ movies[2].conversionInfo # None

\* C2: at most one encoder runs at any time; the encoder of an item is spawned
\* only after the encoders of all earlier items have terminated and their
\* outcomes are recorded; item i of the configuration is invoked with running
\* index i and total N, on its own input file.
C2_Sequential ==
    /\ Cardinality({i \in 1..N : Running(i)}) <= 1
    /\ \A i \in 1..N : Spawned(i) =>
          /\ \A j \in 1..(i - 1) :
                Closed(j) /\ movies[j].conversionResult # None
          /\ encoder[i].args[Len(globalArguments) + 2]
                = configFile.value.movies[i].inputFilePath
    /\ \A i \in 1..N : Running(i) =>
          /\ encoder[i].currentFileIndex = i
          /\ encoder[i].allFilesCount = N

\* the second encoder of a two-item batch runs
C2_Witness ==
    /\ N = 2
    /\ Closed(1)
    /\ Running(2)
    /\ encoder[2].logged > 0

\* C3: a non-zero (or missing) exit code of one encoder is recorded as that
\* item's outcome and does not stop the batch: once the run has exited after
\* the conversions, every item has been invoked and has terminated, each
\* outcome is successful exactly when its exit code was 0, and the exit status
\* is 0 exactly when every exit code was 0 and 1 otherwise; and no run crashes
\* once an encoder has been spawned.
C3_FailureDoesNotStopBatch ==
    /\ (\E i \in 1..N : Spawned(i)) => pc.at # "crashed"
    /\ (pc.at = "exited" /\ ~ConfigParse(configFile).threw) =>
          /\ \A i \in 1..N :
                /\ Closed(i)
                /\ movies[i].conversionResult # None
                /\ movies[i].conversionResult[1].successful
                      <=> (encoder[i].exitCode = Some(0))
          /\ exitStatus = Some(0) <=> \A i \in 1..N : encoder[i].exitCode = Some(0)
          /\ exitStatus \in {Some(0), Some(1)}

\* the first of two encoders failed, the second succeeded, the run exited 1
C3_Witness ==
    /\ pc.at = "exited"
    /\ N = 2
    /\ encoder[1].exitCode = Some(1)
    /\ encoder[2].exitCode = Some(0)
    /\ Closed(2)
    /\ exitStatus = Some(1)

\* the movie entries of the configuration file, as Movie objects
ConfiguredMovies ==
    [i \in 1..Len(configFile.value.movies) |->
        fromIMovie(configFile.value.movies[i])]

Offending(m) ==
    ~hasValidInputFilePath(m) \/ ~hasValidTitle(m) \/ ~hasValidYear(m)

\* the configuration file parses and names existing tools and output folder,
\* and at least one of its movies fails a check
MovieConfigurationError ==
    /\ configFile.json
    /\ configFile.value.ffmpegBinaryPath \in fs
    /\ configFile.value.ffprobeBinaryPath \in fs
    /\ PathJoin(configFile.value.outputFolderPath) \in fs
    /\ \E i \in 1..Len(ConfiguredMovies) : Offending(ConfiguredMovies[i])

\* a line of the message after its header names the movie, by path or by title
ListedIn(m, lines) ==
    \E k \in 2..Len(lines) :
        lines[k] = m.inputFilePath \/ lines[k] = Flat(m.title)

\* nothing was probed, planned or converted
NothingProcessed == movies = <<>> /\ collect = <<>> /\ encoder = <<>>

\* C4 as stated: a configuration error is detected before any probing or
\* invocation and the one message enumerates all offending items, also when
\* different items fail different checks.
C4_AllOffendersListed ==
    (pc.at # "start" /\ MovieConfigurationError) =>
        /\ pc.at = "exited"
        /\ NothingProcessed
        /\ \A i \in 1..Len(ConfiguredMovies) :
              Offending(ConfiguredMovies[i]) => ListedIn(ConfiguredMovies[i], console)

\* the lines after the header of the message of the first failing check
ExpectedListing ==
    LET ms == ConfiguredMovies
        noFile == SelectSeq(ms, LAMBDA m : m.inputFilePath \notin fs)
        noTitle == SelectSeq(ms, LAMBDA m : m.title = <<>>)
        badYear == SelectSeq(ms, LAMBDA m : m.year < 1888 \/ m.year > currentYear)
    IN  IF noFile # <<>> THEN [k \in 1..Len(noFile) |-> noFile[k].inputFilePath]
        ELSE IF noTitle # <<>> THEN [k \in 1..Len(noTitle) |-> Flat(noTitle[k].title)]
        ELSE [k \in 1..Len(badYear) |-> Flat(badYear[k].title)]

\* C4, amended: a configuration error is detected before any probing or
\* invocation, the run exits 1 with one message and nothing is probed or
\* converted; the message enumerates, in configuration order, every item that
\* fails the first failing check (input path, then title, then year), and
\* items that fail only a later check are not listed.
C4_FirstFailingCheckListed ==
    /\ (pc.at # "start" /\ ConfigParse(configFile).threw) =>
          /\ pc.at = "exited"
          /\ exitStatus = Some(1)
          /\ NothingProcessed
          /\ Len(console) >= 1
    /\ (pc.at # "start" /\ MovieConfigurationError) =>
          Tail(console) = ExpectedListing

\* a run that exited on a configuration whose two movies fail different checks
C4_Witness ==
    /\ pc.at = "exited"
    /\ MovieConfigurationError
    /\ Len(ConfiguredMovies) = 2
    /\ ~hasValidInputFilePath(ConfiguredMovies[1])
    /\ hasValidInputFilePath(ConfiguredMovies[2])
    /\ ~hasValidYear(ConfiguredMovies[2])
    /\ Len(console) = 2

---------------------------------------------------------------------------
(* Properties of one Movie under any caller (SpecMovie).                   *)

\* in every state: no encoder exists for a movie without a stored plan, and an
\* outcome is stored exactly for the movies whose encoder has terminated
LifecycleState ==
    \A i \in 1..N :
        /\ movies[i].conversionInfo = None => encoder[i].state = "none"
        /\ movies[i].conversionResult # None <=> Closed(i)

\* convert() called while no plan is stored throws and changes nothing;
\* called with a plan it spawns the encoder
ConvertStep ==
    (lastCall' # lastCall /\ lastCall'.op = "convert") =>
        LET i == lastCall'.movie
        IN  IF movies[i].conversionInfo = None
            THEN lastCall'.threw /\ UNCHANGED movieVars
            ELSE ~lastCall'.threw /\ encoder'[i].state = "running"

\* getConversionResult() throws unless the encoder has terminated, and then
\* returns the stored outcome
GetConversionResultStep ==
    (lastCall' # lastCall /\ lastCall'.op = "getConversionResult") =>
        LET i == lastCall'.movie
        IN  IF ~Closed(i)
            THEN lastCall'.threw /\ lastCall'.value = None
            ELSE ~lastCall'.threw /\ lastCall'.value = movies[i].conversionResult

\* the stderr buffer only grows, by the chunk just written
StderrStep ==
    \A i \in 1..N :
        (Running(i) /\ encoder'[i].state = "running"
            /\ encoder'[i].stderr # encoder[i].stderr) =>
        \E data \in ffmpeg.stderr : encoder'[i].stderr = encoder[i].stderr \o data

\* the outcome changes only when the running encoder terminates, from unset to
\* (exit code is 0, the stderr text accumulated so far)
OutcomeStep ==
    \A i \in 1..N :
        movies'[i].conversionResult # movies[i].conversionResult =>
            /\ Running(i)
            /\ encoder'[i].state = "closed"
            /\ movies[i].conversionResult = None
            /\ movies'[i].conversionResult =
                  Some([successful |-> encoder'[i].exitCode = Some(0),
                        stderr |-> encoder[i].stderr])

\* C5: each item follows plan, invoke, outcome: convert() before
\* collectConversionInfo() has completed throws and spawns no encoder;
\* getConversionResult() before the encoder has terminated throws; the outcome
\* (successful = exit code is 0, stderr = the text accumulated so far) is
\* assigned once, when the process terminates.
C5_Lifecycle ==
    /\ []LifecycleState
    /\ [][ConvertStep /\ GetConversionResultStep /\ StderrStep /\ OutcomeStep]_vars

\* getConversionResult() has just thrown while the encoder of the planned movie
\* runs and has written two chunks of diagnostics
C5_Witness ==
    /\ lastCall = Outcome("getConversionResult", 1, TRUE, None)
    /\ Running(1)
    /\ encoder[1].stderr = "warn\nboom\n"
    /\ movies[1].conversionInfo # None

\* convert() has just thrown while the subtitle prompt of the movie is pending
C5_ConvertThrewReached ==
    /\ lastCall = Outcome("convert", 1, TRUE, None)
    /\ collect[1] # None
    /\ collect[1][1].stage = "subtitle"

IsNumericBlock(data) == data.out_time_us # None /\ data.speed # "N/A"

BlockPercentage(data, i) ==
    getRoundedProgressPercentage(data.out_time_us[1],
                                 movies[i].conversionInfo[1].containerDurationSeconds)

\* a step in which the stdout handler of movie i handled the block lastCall' holds
ProgressStep(i) ==
    encoder'[i].stdoutChunks = encoder[i].stdoutChunks + 1 =>
        LET data == lastCall'.value[1]
            old == encoder[i]
            new == encoder'[i]
            emitted == new.logged = old.logged + 1
        IN  /\ new.logged \in {old.logged, old.logged + 1}
            /\ new.state = "running"
            /\ emitted =>
                  /\ IsNumericBlock(data)
                  /\ BlockPercentage(data, i) # old.roundedProgressPercentage
                  /\ new.roundedProgressPercentage = BlockPercentage(data, i)
                  /\ new.lastLine =
                        ProgressLine(movies[i], old.currentFileIndex,
                            old.allFilesCount, BlockPercentage(data, i), data.speed)
            /\ ~emitted =>
                  /\ new.roundedProgressPercentage = old.roundedProgressPercentage
                  /\ new.lastLine = old.lastLine
            /\ ~IsNumericBlock(data) => ~emitted
            /\ (/\ lastCall.op = "data"
                /\ IsNumericBlock(lastCall.value[1])
                /\ IsNumericBlock(data)
                /\ BlockPercentage(lastCall.value[1], i) = BlockPercentage(data, i))
               => ~emitted

\* C6: a progress line is emitted only when the percentage rounded to two
\* decimals differs from the previously logged value; of two consecutive
\* blocks that round to the same percentage the second emits no line; a block
\* whose out_time_us or speed is "N/A" emits no line, raises no error and
\* leaves the last-logged percentage unchanged.
C6_ProgressLogging == [][\A i \in 1..N : ProgressStep(i)]_vars

\* a block at 50.00 % was logged and the next block, at 50.004 %, was not
C6_Witness ==
    /\ Running(1)
    /\ lastCall = Outcome("data", 1, FALSE, Some(Block(Some(5000400), "2x")))
    /\ encoder[1].stdoutChunks = 2
    /\ encoder[1].logged = 1
    /\ encoder[1].roundedProgressPercentage = "50.00"
    /\ encoder[1].lastLine = "[1 / 1] Up (1999) [50.00% at 1.5x]"

\* a block with out_time_us = N/A arrived after a logged block and logged nothing
C6_NotAvailableReached ==
    /\ Running(1)
    /\ lastCall = Outcome("data", 1, FALSE, Some(Block(None, "1.5x")))
    /\ encoder[1].stdoutChunks = 2
    /\ encoder[1].logged = 1

---------------------------------------------------------------------------
(* Properties of the plan (SpecPlan).  The argument list handed to spawn   *)
(* is read back the way ffmpeg reads its command line: flags, options with *)
(* a value, the input, and one output specification per output file.       *)

FlagNames == {"-hide_banner", "-nostats", "-y"}

StreamSpecifiers ==
    {"a:" \o ToString(k) : k \in 0..(MaxStreams + 1)}
        \cup {"s:" \o ToString(k) : k \in 0..(MaxStreams + 1)}

OptionNames ==
    {"-loglevel", "-progress", "-codec", "-map_metadata", "-map_chapters",
     "-map", "-codec:a:0", "-b:a:0", "-ac:a:0"}
        \cup {"-metadata:s:" \o sp : sp \in StreamSpecifiers}
        \cup {"-disposition:" \o sp : sp \in StreamSpecifiers}

RECURSIVE ParseOutputs(_, _, _)
\* the output specifications of a command line: for each output file its
\* options, as <<name, value>> pairs in order, and its path
ParseOutputs(args, current, outputs) ==
    IF args = <<>> THEN outputs
    ELSE IF Head(args) \in FlagNames
    THEN ParseOutputs(Tail(args), current, outputs)
    ELSE IF Head(args) = "-i"
    THEN ParseOutputs(Tail(Tail(args)), <<>>, outputs)
    ELSE IF Head(args) \in OptionNames
    THEN ParseOutputs(Tail(Tail(args)), Append(current, <<args[1], args[2]>>),
                      outputs)
    ELSE ParseOutputs(Tail(args), <<>>,
                      Append(outputs, [options |-> current, path |-> Head(args)]))

\* the values an output specification gives to the option called name, in order
OptionValues(output, name) ==
    LET hits == SelectSeq(output.options, LAMBDA o : o[1] = name)
    IN  [k \in 1..Len(hits) |-> hits[k][2]]

\* the encoder of the movie of a planning run has been spawned
Planned == Len(encoder) >= 1 /\ Spawned(1)

\* the planned outputs of the one movie of a planning run
PlannedOutputs == ParseOutputs(encoder[1].args, <<>>, <<>>)
PrimaryOutput == PlannedOutputs[1]

\* the streams ffprobe reported for the movie, by type, in reported order
ProbedStreams == media[movies[1].inputFilePath].value.streams
ProbedAudio == SelectSeq(ProbedStreams, LAMBDA st : st.codec_type = "audio")
ProbedSubtitles == SelectSeq(ProbedStreams, LAMBDA st : st.codec_type = "subtitle")

SelectedAudio == movies[1].conversionInfo[1].selectedAudioStream
SelectedSubtitle == movies[1].conversionInfo[1].selectedSubtitleStream

\* the entries a disposition string may be made of
DispositionNames == {"default", "forced", "comment"}

\* the lists, without repetition, of the names in S
ListsOf(S) ==
    {l \in SeqsUpTo(S, Cardinality(S)) :
        \A a, b \in 1..Len(l) : a # b => l[a] # l[b]}

\* the disposition strings whose first entry is "default"
DefaultFirstDispositions ==
    {JoinWith(l, "+") : l \in {m \in ListsOf(DispositionNames) :
                                  m # <<>> /\ m[1] = "default"}}

\* the disposition strings with no "default" entry
DispositionsWithoutDefaultEntry ==
    {JoinWith(l, "+") : l \in ListsOf(DispositionNames \ {"default"})}

\* the output stream specifiers after a:0: a:1..a:N and s:0..s:(M-1)
OtherSpecifiers ==
    {"a:" \o ToString(k) : k \in 1..Len(ProbedAudio)}
        \cup {"s:" \o ToString(k - 1) : k \in 1..Len(ProbedSubtitles)}

\* C7: in the planned primary output, audio stream 0 has exactly one
\* disposition and its first entry is "default"; no other output stream
\* (a:1..a:N, s:0..s:(M-1)) has "default" in its disposition, whatever the
\* prober reported for the "default" flag of the source streams.
C7_DefaultDisposition ==
    Planned =>
        /\ Len(OptionValues(PrimaryOutput, "-disposition:a:0")) = 1
        /\ OptionValues(PrimaryOutput, "-disposition:a:0")[1]
              \in DefaultFirstDispositions
        /\ \A sp \in OtherSpecifiers :
              LET ds == OptionValues(PrimaryOutput, "-disposition:" \o sp)
              IN  /\ Len(ds) <= 1
                  /\ \A k \in 1..Len(ds) : ds[k] \in DispositionsWithoutDefaultEntry

\* a plan in which the selected stream is not flagged default at the source and
\* two copied streams, an audio and a subtitle one, are
C7_Witness ==
    /\ Planned
    /\ ProbedStreams = <<VideoStream, [AudioBare EXCEPT !.index = 1],
                         [AudioCommentary EXCEPT !.index = 2],
                         [SubtitleSrt EXCEPT !.index = 3]>>
    /\ SelectedAudio.index = 1
    /\ OptionValues(PrimaryOutput, "-disposition:a:0") = <<"default">>
    /\ OptionValues(PrimaryOutput, "-disposition:a:2") = <<"comment">>
    /\ OptionValues(PrimaryOutput, "-disposition:s:0") = <<"forced">>

\* "<language or ???> <codec>[ <channel layout>][ [<title>]]" of a probed stream
ProbedTitle(st, withLayout) ==
    (IF TagOf(st.tags, "language") = None THEN "???"
     ELSE TagOf(st.tags, "language")[1])
    \o " " \o st.codec_name
    \o (IF withLayout THEN " " \o st.channel_layout ELSE "")
    \o (IF TagOf(st.tags, "title") = None THEN ""
        ELSE " [" \o TagOf(st.tags, "title")[1] \o "]")

\* the metadata values planned for a probed stream: its title, and its
\* language when it has one
ProbedMetadata(st, withLayout) ==
    <<"title=" \o ProbedTitle(st, withLayout)>>
    \o (IF TagOf(st.tags, "language") = None THEN <<>>
        ELSE <<"language=" \o TagOf(st.tags, "language")[1]>>)

\* the disposition values planned for a copied stream: the flags set at the
\* source other than "default", joined, or nothing when there is none
ProbedDisposition(st) ==
    LET set == SelectSeq(st.disposition,
                         LAMBDA e : e[2] = 1 /\ e[1] # "default")
    IN  IF set = <<>> THEN <<>>
        ELSE <<JoinWith([k \in 1..Len(set) |-> set[k][1]], "+")>>

\* C8: the -map arguments of the primary output are, in order, the video
\* mapping, the selected audio stream Ak, A1..AN in catalog order (Ak a second
\* time) and S1..SM in catalog order; the metadata and disposition of output
\* a:i (i = 1..N) are those of Ai and of output s:j (j = 0..M-1) those of S(j+1).
C8_MapOrder ==
    Planned =>
        /\ OptionValues(PrimaryOutput, "-map") =
              <<"0:V", "0:" \o ToString(SelectedAudio.index)>>
              \o [k \in 1..Len(ProbedAudio) |->
                    "0:" \o ToString(ProbedAudio[k].index)]
              \o [k \in 1..Len(ProbedSubtitles) |->
                    "0:" \o ToString(ProbedSubtitles[k].index)]
        /\ \E k \in 1..Len(ProbedAudio) : ProbedAudio[k].index = SelectedAudio.index
        /\ \A k \in 1..Len(ProbedAudio) :
              /\ OptionValues(PrimaryOutput, "-metadata:s:a:" \o ToString(k))
                    = ProbedMetadata(ProbedAudio[k], TRUE)
              /\ OptionValues(PrimaryOutput, "-disposition:a:" \o ToString(k))
                    = ProbedDisposition(ProbedAudio[k])
        /\ \A k \in 1..Len(ProbedSubtitles) :
              /\ OptionValues(PrimaryOutput, "-metadata:s:s:" \o ToString(k - 1))
                    = ProbedMetadata(ProbedSubtitles[k], FALSE)
              /\ OptionValues(PrimaryOutput, "-disposition:s:" \o ToString(k - 1))
                    = ProbedDisposition(ProbedSubtitles[k])

\* a plan for two audio streams around a subtitle stream, the second audio
\* stream selected
C8_Witness ==
    /\ Planned
    /\ ProbedStreams = <<VideoStream, [AudioEng EXCEPT !.index = 1],
                         [SubtitlePgs EXCEPT !.index = 2],
                         [AudioCommentary EXCEPT !.index = 3]>>
    /\ SelectedAudio.index = 3
    /\ OptionValues(PrimaryOutput, "-map") = <<"0:V", "0:3", "0:1", "0:3", "0:2">>
    /\ OptionValues(PrimaryOutput, "-metadata:s:a:2")
          = <<"title=hun ac3 stereo [Commentary]", "language=hun">>
    /\ OptionValues(PrimaryOutput, "-metadata:s:s:0")
          = <<"title=??? hdmv_pgs_subtitle [Signs]">>

\* the folder planned for the movie of the run under the subfolder sub
ExpectedFolder(sub) ==
    IF configFile.value.movies[1] = MovieUp
    THEN "converted/" \o sub \o "/Up (1999)"
    ELSE "/out/" \o sub \o "/AB (2026)"

\* the file name, without extension, planned for the movie of the run
ExpectedBaseName ==
    IF configFile.value.movies[1] = MovieUp THEN "Up (1999)" ELSE "AB (2026)"

\* C9: with an empty subtitle selection the plan holds no secondary output and
\* the primary output path lies under "external_subtitle_needed"; with a
\* non-empty selection the primary output path lies under "ready" and exactly
\* one external-subtitle output is added: one -map of the selected subtitle
\* index and one .srt path in the same subfolder.
C9_SubtitleRouting ==
    Planned =>
        IF SelectedSubtitle = None
        THEN /\ Len(PlannedOutputs) = 1
             /\ PrimaryOutput.path =
                   ExpectedFolder("external_subtitle_needed") \o "/"
                   \o ExpectedBaseName \o ".mkv"
        ELSE /\ Len(PlannedOutputs) = 2
             /\ PrimaryOutput.path =
                   ExpectedFolder("ready") \o "/" \o ExpectedBaseName \o ".mkv"
             /\ PlannedOutputs[2].options =
                   << <<"-map", "0:" \o ToString(SelectedSubtitle[1].index)>> >>
             /\ PlannedOutputs[2].path =
                   ExpectedFolder("ready") \o "/" \o ExpectedBaseName \o "."
                   \o OrElse(SelectedSubtitle[1].language, "???") \o ".srt"

\* a plan with the subtitle stream of index 2 selected
C9_Witness ==
    /\ Planned
    /\ SelectedSubtitle # None
    /\ SelectedSubtitle[1].index = 2
    /\ PrimaryOutput.path = "converted/ready/Up (1999)/Up (1999).mkv"
    /\ PlannedOutputs[2].path = "converted/ready/Up (1999)/Up (1999).eng.srt"

\* a plan with no subtitle selected
C9_EmptySelectionReached ==
    /\ Planned
    /\ SelectedSubtitle = None
    /\ Len(ProbedSubtitles) > 0
    /\ PrimaryOutput.path = "/out/external_subtitle_needed/AB (2026)/AB (2026).mkv"

\* C10 as stated: the title of output audio stream 0 is "<language or ???> aac
\* stereo", followed by " [<original title>]" whenever the selected audio
\* stream has an original title.
C10_TitleWithOriginal ==
    Planned =>
        OptionValues(PrimaryOutput, "-metadata:s:a:0")[1] =
            "title=" \o OrElse(SelectedAudio.language, "???") \o " aac stereo"
            \o (IF SelectedAudio.title # None
                THEN " [" \o SelectedAudio.title[1] \o "]" ELSE "")

\* C10, amended: the title of output audio stream 0 is "<language or ???> aac
\* stereo" and nothing more, whether or not the selected audio stream has an
\* original title.
C10_TitleWithoutOriginal ==
    Planned =>
        /\ OptionValues(PrimaryOutput, "-metadata:s:a:0") # <<>>
        /\ OptionValues(PrimaryOutput, "-metadata:s:a:0")[1] =
              "title=" \o OrElse(SelectedAudio.language, "???") \o " aac stereo"

\* a plan whose selected audio stream carries the title "Commentary"
C10_Witness ==
    /\ Planned
    /\ SelectedAudio.title = Some("Commentary")
    /\ OptionValues(PrimaryOutput, "-metadata:s:a:0")
          = <<"title=hun aac stereo", "language=hun">>

---------------------------------------------------------------------------
(* The operator at the prompts of one movie: collectConversionInfo() is    *)
(* called on a file of any catalog and every answer typed is recorded      *)
(* with the call it answers.                                               *)

AnswerAudioQuestion ==
    /\ \E answer \in AnswerPool :
          /\ selectAudioStream(1, answer)
          /\ lastCall' = Outcome("selectAudioStream", 1, FALSE, Some(answer))
    /\ UNCHANGED <<configFile, media, ffmpeg, pc, console, exitStatus>>

AnswerSubtitleQuestion ==
    /\ \E answer \in AnswerPool :
          /\ selectSubtitleStream(1, answer)
          /\ lastCall' = Outcome("selectSubtitleStream", 1, FALSE, Some(answer))
    /\ UNCHANGED <<configFile, media, ffmpeg, pc, console, exitStatus>>

InitPrompt ==
    /\ fs = FullFs
    /\ configFile = ConfigOf(<<MovieUp>>, OutConverted)
    /\ media \in {[f \in {"/in/up.mkv", "/in/ab.mkv"} |-> m] : m \in PlanMediaPool}
    /\ ffmpeg = MainFfmpeg
    /\ pc = At("caller", 0, 0)
    /\ movies = <<fromIMovie(MovieUp)>>
    /\ collect = <<None>>
    /\ encoder = <<EncoderIdle>>
    /\ console = <<>>
    /\ exitStatus = None
    /\ lastCall = NoCall

NextPrompt ==
    \/ ApiCollect
    \/ AnswerAudioQuestion
    \/ AnswerSubtitleQuestion

SpecPrompt == InitPrompt /\ [][NextPrompt]_vars

---------------------------------------------------------------------------
(* Properties of the subtitle prompt (SpecPrompt).                         *)

\* the answer just given to the subtitle question
SubtitleAnswered == lastCall.op = "selectSubtitleStream"
LastAnswer == lastCall.value[1]

\* the subtitle loop has ended: the plan is stored
SubtitleLoopEnded == collect[1] = None /\ movies[1].conversionInfo # None

\* the subtitle question is asked again
SubtitlePromptRepeated ==
    /\ collect[1] # None
    /\ collect[1][1].stage = "subtitle"
    /\ movies[1].conversionInfo = None

\* the answer reads as the index of a probed subtitle stream that is not in
\* the displayed list of text-based streams
NamesFilteredOutStream(answer) ==
    \E k \in 1..Len(ProbedSubtitles) :
        /\ ProbedSubtitles[k].codec_name # "subrip"
        /\ parseInt(answer) = Some(ProbedSubtitles[k].index)

\* C11 as stated: after any answer to the subtitle question, an empty answer has
\* ended the loop with no subtitle selected; a non-empty answer has ended the
\* loop only if it matches the index of a cataloged subtitle stream, which is
\* then the selection; an answer naming a stream filtered out of the displayed
\* text-based list is rejected and the prompt is repeated; and an answer that
\* does not end the loop repeats the prompt without an error.
C11_SubtitleSelection ==
    SubtitleAnswered =>
        /\ ~lastCall.threw
        /\ SubtitleLoopEnded \/ SubtitlePromptRepeated
        /\ LastAnswer = <<>> => SubtitleLoopEnded /\ SelectedSubtitle = None
        /\ (LastAnswer # <<>> /\ SubtitleLoopEnded) =>
              /\ SelectedSubtitle # None
              /\ parseInt(LastAnswer) = Some(SelectedSubtitle[1].index)
              /\ \E k \in 1..Len(ProbedSubtitles) :
                    ProbedSubtitles[k].index = SelectedSubtitle[1].index
        /\ NamesFilteredOutStream(LastAnswer) => SubtitlePromptRepeated

\* C11 without its third part: empty answers, matching answers and answers
\* that match nothing behave as stated.
C11_EmptyOrCataloged ==
    SubtitleAnswered =>
        /\ ~lastCall.threw
        /\ SubtitleLoopEnded \/ SubtitlePromptRepeated
        /\ LastAnswer = <<>> => SubtitleLoopEnded /\ SelectedSubtitle = None
        /\ (LastAnswer # <<>> /\ SubtitleLoopEnded) =>
              /\ SelectedSubtitle # None
              /\ parseInt(LastAnswer) = Some(SelectedSubtitle[1].index)
              /\ \E k \in 1..Len(ProbedSubtitles) :
                    ProbedSubtitles[k].index = SelectedSubtitle[1].index
        /\ (\A k \in 1..Len(ProbedSubtitles) :
                parseInt(LastAnswer) # Some(ProbedSubtitles[k].index))
              /\ LastAnswer # <<>> => SubtitlePromptRepeated

\* the answer "2" names an image-based subtitle stream that is not displayed,
\* and the loop has ended with that stream selected
C11_FilteredOutAccepted ==
    /\ SubtitleAnswered
    /\ LastAnswer = <<"2">>
    /\ NamesFilteredOutStream(LastAnswer)
    /\ SubtitleLoopEnded
    /\ SelectedSubtitle # None
    /\ SelectedSubtitle[1].index = 2
    /\ SelectedSubtitle[1].codecName = "hdmv_pgs_subtitle"

\* an answer that matches no cataloged subtitle stream has repeated the prompt
C11_RejectedReached ==
    /\ SubtitleAnswered
    /\ LastAnswer = <<"x">>
    /\ Len(ProbedSubtitles) > 0
    /\ SubtitlePromptRepeated

---------------------------------------------------------------------------
(* A batch run over files that ffprobe may fail to describe.               *)

\* the encoder of these runs: one numeric progress block, one diagnostic
\* chunk, and it exits with 0
ProbeFfmpeg ==
    [stdout |-> {Block(Some(5000000), "1.5x")},
     stderr |-> {"warning\n"},
     exitCodes |-> {Some(0)}]

InitProbe ==
    /\ fs = FullFs
    /\ configFile \in {ConfigOf(ms, OutConverted) :
                          ms \in SeqsUpTo({MovieUp, MovieAB}, MaxMovies)}
    /\ media \in ProbeMedia
    /\ ffmpeg = ProbeFfmpeg
    /\ pc = At("start", 0, 0)
    /\ movies = <<>>
    /\ collect = <<>>
    /\ encoder = <<>>
    /\ console = <<>>
    /\ exitStatus = None
    /\ lastCall = NoCall

SpecProbe == InitProbe /\ [][Next]_vars

---------------------------------------------------------------------------
(* Properties of the probe (SpecProbe).                                    *)

\* what ffprobe printed for the file of movie i
ProbeOutput(i) == media[movies[i].inputFilePath]

\* the prober output of movie i is not well-formed structured data
NotWellFormed(i) == ~ProbeOutput(i).json

\* the format duration in the prober output of movie i is missing or non-numeric
DurationNotNumeric(i) ==
    /\ ProbeOutput(i).json
    /\ ProbeOutput(i).value.format.duration.type # "number"

\* main() has called collectConversionInfo() on movie i
CollectCalled(i) ==
    /\ ~(pc.at = "collect" /\ pc.i <= i)
    /\ ~(pc.at \in {"awaitCollect", "crashed"} /\ pc.i < i)

\* building the catalog of movie i fails and the batch is aborted: no catalog
\* and no plan for i, no encoder for any movie, and once main() has made the
\* call it has ended there with the error
CatalogFails(i) ==
    /\ collect[i] = None
    /\ movies[i].conversionInfo = None
    /\ \A j \in 1..N : ~Spawned(j)
    /\ CollectCalled(i) => pc = At("crashed", i, 0)

\* C12 as stated: building the catalog fails with an error whenever the prober
\* output is not well-formed structured data or its format duration is missing
\* or non-numeric; then no plan is stored for the item and no encoder is
\* spawned for any item of the batch.
C12_ProbeFailure ==
    \A i \in 1..N : (NotWellFormed(i) \/ DurationNotNumeric(i)) => CatalogFails(i)

\* C12 for output that is not well-formed only: the catalog fails, no plan is
\* stored for the item and no encoder is spawned for any item of the batch.
C12_NotWellFormedFails ==
    \A i \in 1..N : NotWellFormed(i) => CatalogFails(i)

\* the first movie's output has no format duration; its plan is stored, its
\* encoder runs and the progress it logged is "NaN"
C12_NoDurationPlanned ==
    /\ N >= 1
    /\ DurationNotNumeric(1)
    /\ ProbeOutput(1).value.format.duration = JsUndefined
    /\ movies[1].conversionInfo # None
    /\ Running(1)
    /\ encoder[1].roundedProgressPercentage = "NaN"

\* the second movie's output is not well-formed: main() has ended at its probe
\* with the first movie's plan stored and no encoder spawned
C12_AbortedAtSecondReached ==
    /\ N = 2
    /\ NotWellFormed(2)
    /\ pc = At("crashed", 2, 0)
    /\ movies[1].conversionInfo # None
    /\ \A j \in 1..N : ~Spawned(j)

=============================================================================
